---- MODULE Spec2Model ----
(***************************************************************************)
(* State-machine model of the fitness-tracker REST API:                    *)
(*   activities/views.py, activities/serializers.py, activities/models.py, *)
(*   users/views.py, users/serializers.py, users/models.py.                *)
(* Every request handler is one action; the last response is kept in       *)
(* `resp` so that properties can speak about status codes and payloads.    *)
(* Where requests overlap, a handler is two actions, its read and its      *)
(* write, and `inflight` holds what each worker has read.                  *)
(* Columns that no handler branches on (description, location, intensity,  *)
(* start_time, elevation_gain) are not carried in the rows.                *)
(***************************************************************************)
EXTENDS Integers, Sequences, FiniteSets, TLC

VARIABLES
    users,       \* auth_user table: set of [id, username, email, password]
    profiles,    \* user_profiles table: set of [user, weight, bio]
    tokens,      \* outstanding refresh tokens: set of [jti, user, blacklisted]
    activities,  \* activities table: set of rows
    nextId,      \* next activity primary key
    nextUid,     \* next user primary key
    today,       \* timezone.now().date(), as a day number
    resp,        \* the last request and its response
    inflight     \* requests between their read and their write, by worker

vars == <<users, profiles, tokens, activities, nextId, nextUid, today, resp,
          inflight>>

----------------------------------------------------------------------------
(* Bounds of the model *)

MaxActivities == 2      \* primary keys handed out to activities
MaxUsers == 2           \* accounts that can be registered
MaxTokens == 2          \* refresh tokens that can be issued by logins
MaxWorkers == 2         \* requests that can be in progress at the same time

(* Values *)

NULL == -1              \* SQL NULL / Python None of a nullable numeric column
Anon == 0               \* a request without (valid) credentials
NoTitle == << >>        \* the empty string of the title column

HTTP_200 == 200
HTTP_201 == 201
HTTP_204 == 204
HTTP_205 == 205
HTTP_400 == 400
HTTP_401 == 401
HTTP_404 == 404
HTTP_500 == 500

ACTIVITY_TYPE_CHOICES ==
    << <<"RUNNING", "Running">>, <<"CYCLING", "Cycling">>,
       <<"SWIMMING", "Swimming">>, <<"WALKING", "Walking">>,
       <<"WEIGHTLIFTING", "Weightlifting">>, <<"YOGA", "Yoga">>,
       <<"HIIT", "HIIT">>, <<"CROSSFIT", "CrossFit">>,
       <<"BOXING", "Boxing">>, <<"ROWING", "Rowing">>,
       <<"PILATES", "Pilates">>, <<"DANCING", "Dancing">>,
       <<"HIKING", "Hiking">>, <<"BASKETBALL", "Basketball">>,
       <<"FOOTBALL", "Football">>, <<"TENNIS", "Tennis">>,
       <<"GOLF", "Golf">>, <<"OTHER", "Other">> >>

ActivityTypeValues ==
    { ACTIVITY_TYPE_CHOICES[i][1] : i \in 1..Len(ACTIVITY_TYPE_CHOICES) }

get_activity_type_display(t) ==
    LET i == CHOOSE j \in 1..Len(ACTIVITY_TYPE_CHOICES) :
                 ACTIVITY_TYPE_CHOICES[j][1] = t
    IN  ACTIVITY_TYPE_CHOICES[i][2]

\* ActivityCreateSerializer.Meta.fields (the modelled columns of it)
CreateSerializerFields ==
    {"activity_type", "title", "duration", "distance", "calories_burned",
     "date", "average_heart_rate", "max_heart_rate"}

\* set_password / make_password: what is stored is a hash of the password
Hash(password) == <<"pbkdf2_sha256", password>>

EmptyBody == [f \in {} |-> NULL]
NoData == [none |-> TRUE]

UserIds == { u.id : u \in users }

\* a worker that is handling no request
Workers == 1..MaxWorkers
Idle == [stage |-> "idle"]

----------------------------------------------------------------------------
(* activities/models.py *)

\* f"{self.get_activity_type_display()} - {self.date}"
AutoTitle(row) == <<get_activity_type_display(row.activity_type), " - ", row.date>>

\* Activity.save(): fill in the title when it is empty, then write the row
Save(row) ==
    IF row.title = NoTitle THEN [row EXCEPT !.title = AutoTitle(row)] ELSE row

\* Activity(user=..., **data): absent columns take the model's defaults
NewRow(id, user, data, now) ==
    LET get(f, dflt) == IF f \in DOMAIN data THEN data[f] ELSE dflt
    IN  [ id                 |-> id,
          user               |-> user,
          activity_type      |-> data.activity_type,
          title              |-> get("title", NoTitle),
          duration           |-> data.duration,
          distance           |-> get("distance", NULL),
          calories_burned    |-> get("calories_burned", NULL),
          date               |-> get("date", now),
          average_heart_rate |-> get("average_heart_rate", NULL),
          max_heart_rate     |-> get("max_heart_rate", NULL) ]

\* str() of the timestamp that default=timezone.now leaves on a new instance
\* until the row is written: the day followed by the time of day
TimestampText(now) == <<now, "HH:MM:SS.ffffff+00:00">>

\* the f-string of Activity.save() on an instance whose date was defaulted
AutoTitleOfTimestamp(row, now) ==
    <<get_activity_type_display(row.activity_type), " - ">> \o TimestampText(now)

\* Activity.objects.create(user=..., **data): __init__, then save(); the
\* date column stores the day, the title is formatted from the instance
Create(id, user, data, now) ==
    LET row == NewRow(id, user, data, now)
    IN  IF row.title # NoTitle THEN row
        ELSE IF "date" \in DOMAIN data THEN Save(row)
        ELSE [row EXCEPT !.title = AutoTitleOfTimestamp(row, now)]

\* round(x, 2) of the float quotient num/den, in hundredths: the nearest
\* hundredth; when the quotient lies exactly between two hundredths the
\* float arithmetic decides, and either neighbour can come out
Round2(num, den) ==
    {q \in {num \div den, (num \div den) + 1} :
        2 * (IF q * den >= num THEN q * den - num ELSE num - q * den) <= den}

\* (variant: minutes and kilometres swapped in the quotient)
paceInverted(row) ==
    IF row.distance # NULL /\ row.distance # 0 /\ row.distance > 0
    THEN Round2(row.distance, row.duration) ELSE {NULL}

\* Activity.pace, minutes per kilometre in hundredths (distance is kept in
\* hundredths of a kilometre); None is NULL
pace(row) ==
    IF row.distance # NULL /\ row.distance # 0 /\ row.distance > 0
    THEN Round2(10000 * row.duration, row.distance) ELSE {NULL}

\* Activity.speed, kilometres per hour in hundredths; None is NULL
speed(row) ==
    IF row.distance # NULL /\ row.distance # 0 /\ row.duration > 0
    THEN Round2(60 * row.distance, row.duration) ELSE {NULL}

----------------------------------------------------------------------------
(* activities/serializers.py *)

Has(body, f) == f \in DOMAIN body

\* ActivitySerializer.validate_date
validate_date(value, now) == ~(value > now)

\* Python truthiness of an optional integer
Truthy(x) == x # NULL /\ x # 0

\* ActivitySerializer.validate: TRUE when attrs pass
validate(attrs) ==
    LET avg_hr == IF Has(attrs, "average_heart_rate")
                  THEN attrs.average_heart_rate ELSE NULL
        max_hr == IF Has(attrs, "max_heart_rate")
                  THEN attrs.max_heart_rate ELSE NULL
    IN  ~(Truthy(avg_hr) /\ Truthy(max_hr) /\ avg_hr > max_hr)

\* Field-level errors a ModelSerializer derives from the model columns
\* (required, choices, MinValueValidator, MaxValueValidator).
ModelFieldErrors(body, partial) ==
    {f \in {"activity_type", "duration"} : ~partial /\ ~Has(body, f)}
    \cup {f \in {"activity_type"} :
            Has(body, f) /\ body[f] \notin ActivityTypeValues}
    \cup {f \in {"duration"} : Has(body, f) /\ body[f] < 1}
    \cup {f \in {"distance", "calories_burned"} :
            Has(body, f) /\ body[f] # NULL /\ body[f] < 0}
    \cup {f \in {"average_heart_rate", "max_heart_rate"} :
            Has(body, f) /\ body[f] # NULL /\ (body[f] < 30 \/ body[f] > 220)}

\* serializer.is_valid(): the set of fields reported in a 400 response.
\* Field errors (validate_<field> included) stop validation before the
\* object-level validate() runs.
SerializerErrors(cls, body, partial, now) ==
    LET fieldErrs ==
            ModelFieldErrors(body, partial)
            \cup IF cls = "ActivitySerializer" /\ Has(body, "date")
                    /\ ~validate_date(body.date, now)
                 THEN {"date"} ELSE {}
    IN  IF fieldErrs # {} THEN fieldErrs
        ELSE IF cls = "ActivitySerializer" /\ ~validate(body)
             THEN {"average_heart_rate"}
             ELSE {}

\* serializer.validated_data: only the serializer's declared fields survive
ValidatedData(body) ==
    [f \in (DOMAIN body) \cap CreateSerializerFields |-> body[f]]

\* ActivityCreateSerializer.create calls
\*     Activity.objects.create(user=user, **validated_data)
\* which raises TypeError when validated_data itself carries the key "user".
CreateRaisesTypeError(validated_data) == "user" \in DOMAIN validated_data

\* ModelSerializer.update: set the validated attributes, then instance.save()
SerializerUpdate(row, validated_data) ==
    Save([f \in DOMAIN row |->
            IF f \in DOMAIN validated_data THEN validated_data[f] ELSE row[f]])

----------------------------------------------------------------------------
(* activities/views.py: permissions and querysets *)

\* (variant: permissions.AllowAny in place of IsAuthenticated)
AllowAny(caller) == TRUE

\* permissions.IsAuthenticated
IsAuthenticated(caller) == caller \in UserIds

\* (variant: Activity.objects.all() in place of the owner filter)
ListQuerysetUnscoped(store, caller) == store

\* ActivityListCreateView.get_queryset
ListQueryset(store, caller) == {a \in store : a.user = caller}

\* (variant: Activity.objects.all() in place of the owner filter)
DetailQuerysetUnscoped(store, caller) == store

\* ActivityDetailView.get_queryset
DetailQueryset(store, caller) == {a \in store : a.user = caller}

\* Activity.objects.filter(user=user) of the function views
OwnedBy(store, user) == {a \in store : a.user = user}

\* get_object(): the row of the queryset with this pk (none: Http404)
GetObject(qs, pk) == {a \in qs : a.id = pk}

\* ActivityListCreateView.get_serializer_class / ActivityDetailView.get_serializer_class
get_serializer_class(method) ==
    IF method \in {"POST", "PUT", "PATCH"}
    THEN "ActivityCreateSerializer" ELSE "ActivitySerializer"

----------------------------------------------------------------------------
(* activities/filters.py and the read side of activities/views.py *)

page_size == 10         \* ActivityPagination.page_size
RecentLimit == 10       \* recent_activities: [:10]

\* (variant: date_to excludes its own day)
ApplyFiltersExclusive(qs, params) ==
    {a \in qs :
        /\ Has(params, "activity_type") => a.activity_type = params.activity_type
        /\ Has(params, "date_from") => a.date >= params.date_from
        /\ Has(params, "date_to") => a.date < params.date_to
        /\ Has(params, "min_duration") => a.duration >= params.min_duration
        /\ Has(params, "max_duration") => a.duration <= params.max_duration}

\* ActivityFilter: every supplied filter narrows the queryset (AND)
ApplyFilters(qs, params) ==
    {a \in qs :
        /\ Has(params, "activity_type") => a.activity_type = params.activity_type
        /\ Has(params, "date_from") => a.date >= params.date_from
        /\ Has(params, "date_to") => a.date <= params.date_to
        /\ Has(params, "min_duration") => a.duration >= params.min_duration
        /\ Has(params, "max_duration") => a.duration <= params.max_duration}

\* DjangoFilterBackend is among the default filter backends, so that the
\* filterset_class of the list view takes effect
DjangoFilterBackendEnabled == TRUE

\* GenericAPIView.filter_queryset
filter_queryset(qs, params) ==
    IF DjangoFilterBackendEnabled THEN ApplyFilters(qs, params) ELSE qs

\* ordering = ['-date', '-created_at']; created_at grows with the primary key
Newer(a, b) == a.date > b.date \/ (a.date = b.date /\ a.id > b.id)

RECURSIVE OrderByNewest(_)
OrderByNewest(S) ==
    IF S = {} THEN << >>
    ELSE LET first == CHOOSE a \in S : \A b \in S \ {a} : Newer(a, b)
         IN  <<first>> \o OrderByNewest(S \ {first})

Take(seq, n) == SubSeq(seq, 1, IF Len(seq) < n THEN Len(seq) ELSE n)

\* GET /activities/: {count, results} of the filtered, ordered queryset
ListResponse(store, caller, params) ==
    LET qs == filter_queryset(ListQueryset(store, caller), params)
    IN  [count |-> Cardinality(qs),
         results |-> Take(OrderByNewest(qs), page_size)]

\* (variant: the stored marker of a missing value is added like a number)
RECURSIVE SumOfRaw(_, _)
SumOfRaw(S, col) ==
    IF S = {} THEN 0
    ELSE LET a == CHOOSE x \in S : TRUE
         IN  a[col] + SumOfRaw(S \ {a}, col)

\* Sum('<column>') over a queryset: NULLs are skipped, no rows gives None
RECURSIVE SumOf(_, _)
SumOf(S, col) ==
    IF S = {} THEN 0
    ELSE LET a == CHOOSE x \in S : TRUE
         IN  (IF a[col] = NULL THEN 0 ELSE a[col]) + SumOf(S \ {a}, col)

NonNull(S, col) == {a \in S : a[col] # NULL}

\* round(x, 2) of the quotient num/den, in hundredths, ties to even
RoundDiv(num, den) ==
    LET q == num \div den
        r == num % den
    IN  IF 2 * r < den THEN q
        ELSE IF 2 * r > den THEN q + 1
        ELSE IF q % 2 = 0 THEN q ELSE q + 1

\* (variant: no rows gives None, passed on as it is)
AvgOfNone(S, col, scale) ==
    LET rows == {a \in S : a[col] # NULL}
    IN  IF rows = {} THEN NULL
        ELSE (scale * SumOfRaw(rows, col)) \div Cardinality(rows)

\* round(Avg('<column>') or 0, 2), in hundredths; `scale` is 100 for integer
\* columns and 1 for columns already kept in hundredths
AvgOf(S, col, scale) ==
    LET rows == NonNull(S, col)
    IN  IF rows = {} THEN 0
        ELSE RoundDiv(scale * SumOf(rows, col), Cardinality(rows))

\* the period shortcut of activity_metrics: days back from today
PeriodDays(period) ==
    CASE period = "week" -> 7
      [] period = "month" -> 30
      [] period = "year" -> 365
      [] OTHER -> NULL

\* (variant: the period floor and the date_from of the query string both
\* narrow the queryset)
MetricsQuerysetComposed(store, caller, params, now) ==
    LET days == IF Has(params, "period") THEN PeriodDays(params.period) ELSE NULL
    IN  {a \in OwnedBy(store, caller) :
            /\ days # NULL => a.date >= now - days
            /\ Has(params, "date_from") => a.date >= params.date_from
            /\ Has(params, "date_to") => a.date <= params.date_to
            /\ Has(params, "activity_type") =>
                   a.activity_type = params.activity_type}

\* activity_metrics: the queryset after the date / type filters.  A known
\* period assigns date_from, replacing the one of the query string.
MetricsQueryset(store, caller, params, now) ==
    LET explicit == IF Has(params, "date_from") THEN params.date_from ELSE NULL
        days == IF Has(params, "period") THEN PeriodDays(params.period) ELSE NULL
        hasFrom == days # NULL \/ Has(params, "date_from")
        date_from == IF days # NULL THEN now - days ELSE explicit
    IN  {a \in OwnedBy(store, caller) :
            /\ hasFrom => a.date >= date_from
            /\ Has(params, "date_to") => a.date <= params.date_to
            /\ Has(params, "activity_type") =>
                   a.activity_type = params.activity_type}

\* values('activity_type').annotate(count=Count('id'))
Breakdown(qs) ==
    [t \in {a.activity_type : a \in qs} |->
        Cardinality({a \in qs : a.activity_type = t})]

\* order_by('-count').first(): any type with the highest count (the order
\* among equal counts is left to the database); none gives None
MostCommonCandidates(qs) ==
    LET b == Breakdown(qs)
    IN  IF qs = {} THEN {"None"}
        ELSE {t \in DOMAIN b : \A u \in DOMAIN b : b[u] <= b[t]}

\* summary_data of activity_metrics over a queryset, for one choice of
\* most_common_activity
SummaryData(qs, most_common) ==
    [total_activities |-> Cardinality(qs),
     total_duration |-> SumOf(qs, "duration"),
     total_distance |-> SumOf(qs, "distance"),
     total_calories |-> SumOf(qs, "calories_burned"),
     average_duration |-> AvgOf(qs, "duration", 100),
     average_distance |-> AvgOf(qs, "distance", 1),
     average_calories |-> AvgOf(qs, "calories_burned", 100),
     most_common_activity |-> most_common,
     activity_breakdown |-> Breakdown(qs)]

\* activity_metrics: the summary of the filtered queryset
MetricsResponse(store, caller, params, now, most_common) ==
    SummaryData(MetricsQueryset(store, caller, params, now), most_common)

\* activity_type_stats: one entry per activity type of the caller
TypeStatsResponse(store, caller, params) ==
    LET qs == {a \in OwnedBy(store, caller) :
                  /\ Has(params, "date_from") => a.date >= params.date_from
                  /\ Has(params, "date_to") => a.date <= params.date_to}
        of(t) == {a \in qs : a.activity_type = t}
    IN  [t \in {a.activity_type : a \in qs} |->
            [count |-> Cardinality(of(t)),
             total_duration |-> SumOf(of(t), "duration"),
             total_distance |-> SumOf(of(t), "distance"),
             total_calories |-> SumOf(of(t), "calories_burned"),
             average_duration |-> AvgOf(of(t), "duration", 100),
             average_distance |-> AvgOf(of(t), "distance", 1),
             average_calories |-> AvgOf(of(t), "calories_burned", 100)]]

\* recent_activities: the caller's ten newest rows
RecentResponse(store, caller) ==
    Take(OrderByNewest(OwnedBy(store, caller)), RecentLimit)

----------------------------------------------------------------------------
(* Requests *)

Callers == UserIds \cup {Anon}
Pks == 1..MaxActivities

\* rows written through the ORM, as the fixtures of activities/tests.py do;
\* the row with an odd primary key carries heart rates, the other does not
SeedData(id, now) ==
    IF id % 2 = 1
    THEN [activity_type |-> "RUNNING", duration |-> 30, distance |-> 500,
          calories_burned |-> 300, date |-> now,
          average_heart_rate |-> 100, max_heart_rate |-> 120]
    ELSE [activity_type |-> "CYCLING", title |-> <<"Commute">>,
          duration |-> 60, date |-> now - 1]

\* request bodies of POST / PUT / PATCH: a complete body that also names an
\* owner, a partial body with tomorrow's date and one heart rate, and a
\* partial body with one acceptable and one unacceptable field
RequestBodies(now) ==
    { [activity_type |-> "RUNNING", duration |-> 50, user |-> 2],
      [date |-> now + 1, average_heart_rate |-> 150],
      [duration |-> 40, average_heart_rate |-> 10] }

\* query strings of the list, metrics and type-stats endpoints
QueryParams(now) ==
    { EmptyBody,
      [activity_type |-> "RUNNING", date_from |-> now] }

Response(op, caller, pk, body, status, data) ==
    [op |-> op, caller |-> caller, pk |-> pk, body |-> body,
     status |-> status, data |-> data]

NoResponse == Response("NONE", Anon, 0, EmptyBody, 0, NoData)

ReadOps == {"LIST", "GET", "METRICS", "TYPE_STATS", "RECENT"}
WriteOps == {"POST", "PUT", "PATCH", "DELETE"}
ActivityOps == ReadOps \cup WriteOps

----------------------------------------------------------------------------
(* Actions that are not API requests *)

\* Activity.objects.create(user=..., **seed): no serializer is involved
ModelCreate(u) ==
    /\ nextId <= MaxActivities
    /\ u \in UserIds
    /\ activities' =
         activities \cup {Create(nextId, u, SeedData(nextId, today), today)}
    /\ nextId' = nextId + 1
    /\ resp' = NoResponse
    /\ UNCHANGED <<users, profiles, tokens, nextUid, today, inflight>>

----------------------------------------------------------------------------
(* activities/views.py: the handlers *)

\* BaseSerializer.save(user=request.user): the keyword is merged into the
\* validated data handed to create()
SaveData(validated_data, caller) ==
    [f \in (DOMAIN validated_data) \cup {"user"} |->
        IF f = "user" THEN caller ELSE validated_data[f]]

\* POST /activities/
PostActivity(caller, body) ==
    LET cls == get_serializer_class("POST")
        errs == SerializerErrors(cls, body, FALSE, today)
        data == SaveData(ValidatedData(body), caller)
        row == Create(nextId, caller, data, today)
        R(status, d) == Response("POST", caller, 0, body, status, d)
    IN  IF ~IsAuthenticated(caller)
        THEN /\ resp' = R(HTTP_401, NoData)
             /\ UNCHANGED <<activities, nextId>>
        ELSE IF errs # {}
        THEN /\ resp' = R(HTTP_400, [errors |-> errs])
             /\ UNCHANGED <<activities, nextId>>
        ELSE IF CreateRaisesTypeError(data)
        THEN /\ resp' = R(HTTP_500, NoData)
             /\ UNCHANGED <<activities, nextId>>
        ELSE /\ nextId <= MaxActivities
             /\ activities' = activities \cup {row}
             /\ nextId' = nextId + 1
             /\ resp' = R(HTTP_201, [activity |-> row])

\* GET /activities/
ListActivities(caller, params) ==
    /\ resp' = IF ~IsAuthenticated(caller)
               THEN Response("LIST", caller, 0, params, HTTP_401, NoData)
               ELSE Response("LIST", caller, 0, params, HTTP_200,
                             ListResponse(activities, caller, params))
    /\ UNCHANGED <<activities, nextId>>

\* GET /activities/{pk}/
RetrieveActivity(caller, pk) ==
    LET found == GetObject(DetailQueryset(activities, caller), pk)
        R(status, d) == Response("GET", caller, pk, EmptyBody, status, d)
    IN  /\ IF ~IsAuthenticated(caller) THEN resp' = R(HTTP_401, NoData)
           ELSE IF found = {} THEN resp' = R(HTTP_404, NoData)
           ELSE \E a \in found : \E p \in pace(a) : \E s \in speed(a) :
                    resp' = R(HTTP_200, [activity |-> a, pace |-> p, speed |-> s])
        /\ UNCHANGED <<activities, nextId>>

\* (variant: the fields that pass on their own are written although the
\* request as a whole is rejected)
StoreAfterUpdateFieldwise(store, row, body, errs) ==
    LET data == ValidatedData(body)
    IN  (store \ {row}) \cup
        {SerializerUpdate(row, [f \in (DOMAIN data) \ errs |-> data[f]])}

\* UpdateModelMixin.update: is_valid(raise_exception=True), then
\* perform_update -> serializer.save()
StoreAfterUpdate(store, row, body, errs) ==
    IF errs # {} THEN store
    ELSE (store \ {row}) \cup {SerializerUpdate(row, ValidatedData(body))}

\* PUT / PATCH /activities/{pk}/
UpdateActivity(method, caller, pk, body) ==
    LET found == GetObject(DetailQueryset(activities, caller), pk)
        row == CHOOSE a \in found : TRUE
        cls == get_serializer_class(method)
        errs == SerializerErrors(cls, body, method = "PATCH", today)
        after == StoreAfterUpdate(activities, row, body, errs)
        R(status, d) == Response(method, caller, pk, body, status, d)
    IN  /\ UNCHANGED nextId
        /\ IF ~IsAuthenticated(caller)
           THEN resp' = R(HTTP_401, NoData) /\ UNCHANGED activities
           ELSE IF found = {}
           THEN resp' = R(HTTP_404, NoData) /\ UNCHANGED activities
           ELSE /\ activities' = after
                /\ resp' = IF errs # {} THEN R(HTTP_400, [errors |-> errs])
                           ELSE R(HTTP_200,
                                  [activity |-> CHOOSE a \in after : a.id = pk])

\* DELETE /activities/{pk}/
DestroyActivity(caller, pk) ==
    LET found == GetObject(DetailQueryset(activities, caller), pk)
        R(status) == Response("DELETE", caller, pk, EmptyBody, status, NoData)
    IN  /\ UNCHANGED nextId
        /\ IF ~IsAuthenticated(caller)
           THEN resp' = R(HTTP_401) /\ UNCHANGED activities
           ELSE IF found = {}
           THEN resp' = R(HTTP_404) /\ UNCHANGED activities
           ELSE resp' = R(HTTP_204) /\ activities' = activities \ found

\* GET /activities/metrics/
ActivityMetrics(caller, params) ==
    /\ IF ~IsAuthenticated(caller)
       THEN resp' = Response("METRICS", caller, 0, params, HTTP_401, NoData)
       ELSE \E mc \in MostCommonCandidates(
                          MetricsQueryset(activities, caller, params, today)) :
               resp' = Response("METRICS", caller, 0, params, HTTP_200,
                           MetricsResponse(activities, caller, params, today, mc))
    /\ UNCHANGED <<activities, nextId>>

\* GET /activities/type-stats/
ActivityTypeStats(caller, params) ==
    /\ resp' = IF ~IsAuthenticated(caller)
               THEN Response("TYPE_STATS", caller, 0, params, HTTP_401, NoData)
               ELSE Response("TYPE_STATS", caller, 0, params, HTTP_200,
                        [stats |-> TypeStatsResponse(activities, caller, params)])
    /\ UNCHANGED <<activities, nextId>>

\* GET /activities/recent/
RecentActivities(caller) ==
    /\ resp' = IF ~IsAuthenticated(caller)
               THEN Response("RECENT", caller, 0, EmptyBody, HTTP_401, NoData)
               ELSE Response("RECENT", caller, 0, EmptyBody, HTTP_200,
                        [recent |-> RecentResponse(activities, caller)])
    /\ UNCHANGED <<activities, nextId>>

\* an activity request touches no other table
ActivityRequest(handler) ==
    handler /\ UNCHANGED <<users, profiles, tokens, nextUid, today, inflight>>

----------------------------------------------------------------------------
(* The activity API over two registered accounts (the fixture of            *)
(* activities/tests.py: testuser and otheruser)                             *)

FixtureUsers ==
    { [id |-> 1, username |-> "testuser", email |-> "test@example.com",
       password |-> Hash("testpass123")],
      [id |-> 2, username |-> "otheruser", email |-> "other@example.com",
       password |-> Hash("testpass123")] }

Init ==
    /\ users = FixtureUsers
    /\ profiles = { [user |-> u.id, weight |-> NULL, bio |-> ""] : u \in FixtureUsers }
    /\ tokens = {}
    /\ activities = {}
    /\ nextId = 1
    /\ nextUid = 3
    /\ today = 10
    /\ resp = NoResponse
    /\ inflight = [w \in Workers |-> Idle]

Next ==
    \/ \E u \in UserIds : ModelCreate(u)
    \/ \E caller \in Callers, body \in RequestBodies(today) :
          ActivityRequest(PostActivity(caller, body))
    \/ \E caller \in Callers, params \in QueryParams(today) :
          ActivityRequest(ListActivities(caller, params))
    \/ \E caller \in Callers, pk \in Pks :
          ActivityRequest(RetrieveActivity(caller, pk))
    \/ \E caller \in Callers, pk \in Pks, body \in RequestBodies(today) :
          ActivityRequest(UpdateActivity("PUT", caller, pk, body))
    \/ \E caller \in Callers, pk \in Pks, body \in RequestBodies(today) :
          ActivityRequest(UpdateActivity("PATCH", caller, pk, body))
    \/ \E caller \in Callers, pk \in Pks :
          ActivityRequest(DestroyActivity(caller, pk))
    \/ \E caller \in Callers, params \in QueryParams(today) :
          ActivityRequest(ActivityMetrics(caller, params))
    \/ \E caller \in Callers, params \in QueryParams(today) :
          ActivityRequest(ActivityTypeStats(caller, params))
    \/ \E caller \in Callers : ActivityRequest(RecentActivities(caller))

Spec == Init /\ [][Next]_vars

----------------------------------------------------------------------------
(* Properties of the activity API, checked under Spec *)

OwnRows(u) == {a \in activities : a.user = u}
ForeignRows(u) == {a \in activities : a.user # u}
WriteBodyErrors(r) ==
    SerializerErrors(get_serializer_class(r.op), r.body, r.op = "PATCH", today)

\* C1: a retrieve, update or delete of an activity by a user who is not its
\* owner is answered 404 and leaves the activity stored and unchanged.
C1_CrossUserNotFound ==
    [][ \A a \in activities :
          ( /\ resp'.op \in {"GET", "PUT", "PATCH", "DELETE"}
            /\ resp'.pk = a.id
            /\ resp'.caller \in UserIds
            /\ resp'.caller # a.user )
          => (resp'.status = HTTP_404 /\ a \in activities') ]_vars

\* C1 witness: a PATCH with an acceptable body, addressed by a registered
\* user to another user's stored activity, has been answered 404.
C1_Witness ==
    /\ resp.op = "PATCH"
    /\ resp.status = HTTP_404
    /\ WriteBodyErrors(resp) = {}
    /\ resp.caller \in UserIds
    /\ \E a \in activities : a.id = resp.pk /\ a.user # resp.caller

\* C2: what a read endpoint returns to a caller is computed from the caller's
\* own activities alone: adding or removing other users' rows changes no
\* list, metrics, type-stats or recent response, the response actually sent
\* is the one computed over the caller's rows, and the unfiltered list count
\* is the number of the caller's activities.
C2_ReadsSeeOwnRowsOnly ==
    /\ \A u \in UserIds : \A X \in SUBSET ForeignRows(u) :
          LET mine == OwnRows(u)
              other == mine \cup X
          IN  /\ \A q \in QueryParams(today) :
                    /\ ListResponse(other, u, q) = ListResponse(activities, u, q)
                    /\ MetricsQueryset(other, u, q, today)
                           = MetricsQueryset(activities, u, q, today)
                    /\ MetricsResponse(other, u, q, today, "None")
                           = MetricsResponse(activities, u, q, today, "None")
                    /\ TypeStatsResponse(other, u, q)
                           = TypeStatsResponse(activities, u, q)
              /\ RecentResponse(other, u) = RecentResponse(activities, u)
              /\ ListResponse(activities, u, EmptyBody).count = Cardinality(mine)
    /\ (resp.status = HTTP_200 /\ resp.op = "LIST") =>
          resp.data = ListResponse(OwnRows(resp.caller), resp.caller, resp.body)
    /\ (resp.status = HTTP_200 /\ resp.op = "METRICS") =>
          /\ resp.data = MetricsResponse(OwnRows(resp.caller), resp.caller,
                             resp.body, today, resp.data.most_common_activity)
          /\ resp.data.most_common_activity \in
                 MostCommonCandidates(MetricsQueryset(OwnRows(resp.caller),
                                          resp.caller, resp.body, today))
    /\ (resp.status = HTTP_200 /\ resp.op = "TYPE_STATS") =>
          resp.data.stats =
              TypeStatsResponse(OwnRows(resp.caller), resp.caller, resp.body)
    /\ (resp.status = HTTP_200 /\ resp.op = "RECENT") =>
          resp.data.recent = RecentResponse(OwnRows(resp.caller), resp.caller)

\* C2 witness: a caller who owns an activity has listed activities while
\* another user's activity was stored.
C2_Witness ==
    /\ resp.op = "LIST"
    /\ resp.status = HTTP_200
    /\ resp.body = EmptyBody
    /\ OwnRows(resp.caller) # {}
    /\ ForeignRows(resp.caller) # {}

\* C3: a request to an activity endpoint without an authenticated caller is
\* answered 401, carries no activity data and changes nothing in the store.
C3_AnonymousRejected ==
    [][ (resp'.op \in ActivityOps /\ resp'.caller \notin UserIds)
        => ( /\ resp'.status = HTTP_401
             /\ resp'.data = NoData
             /\ activities' = activities
             /\ nextId' = nextId ) ]_vars

\* C3 witness: an anonymous PATCH with an acceptable body, addressed to a
\* stored activity, has been answered 401.
C3_Witness ==
    /\ resp.op = "PATCH"
    /\ resp.caller = Anon
    /\ resp.status = HTTP_401
    /\ WriteBodyErrors(resp) = {}
    /\ \E a \in activities : a.id = resp.pk

\* C4: a POST that passes validation creates an activity, the activity a POST
\* creates is owned by the authenticated caller whatever the body says, and
\* no later request changes the owner of a stored activity.
C4_PostBindsOwner ==
    [][ /\ ( /\ resp'.op = "POST"
             /\ resp'.caller \in UserIds
             /\ WriteBodyErrors(resp') = {} )
           => ( /\ resp'.status = HTTP_201
                /\ \E a \in activities' \ activities : a.user = resp'.caller )
        /\ resp'.op = "POST" =>
              \A a \in activities' \ activities : a.user = resp'.caller
        /\ \A a \in activities, b \in activities' :
              a.id = b.id => a.user = b.user ]_vars

\* C5: a create or update whose date is after the current date is answered
\* 400 and stores nothing, so no row written through the API carries a date
\* that is in the future when it is written.
C5_FutureDateRejected ==
    [][ /\ ( /\ resp'.op \in {"POST", "PUT", "PATCH"}
             /\ resp'.caller \in UserIds
             /\ resp'.op # "POST" =>
                   \E a \in OwnRows(resp'.caller) : a.id = resp'.pk
             /\ Has(resp'.body, "date")
             /\ resp'.body.date > today )
           => (resp'.status = HTTP_400 /\ activities' = activities)
        /\ resp'.op \in {"POST", "PUT", "PATCH"} =>
              \A a \in activities' \ activities : a.date <= today ]_vars

\* C6: every stored activity that has both heart rates has
\* average_heart_rate <= max_heart_rate.
C6_HeartRateOrdered ==
    \A a \in activities :
        (a.average_heart_rate # NULL /\ a.max_heart_rate # NULL)
        => a.average_heart_rate <= a.max_heart_rate

\* C7: a create or update answered 400 creates no activity and changes no
\* field of any stored activity.
C7_RejectedWriteChangesNothing ==
    [][ (resp'.op \in {"POST", "PUT", "PATCH"} /\ resp'.status = HTTP_400)
        => (activities' = activities /\ nextId' = nextId) ]_vars

\* C7 witness: the owner's PATCH that carries one acceptable and one
\* unacceptable field has been answered 400.
C7_Witness ==
    /\ resp.op = "PATCH"
    /\ resp.status = HTTP_400
    /\ resp.data.errors # DOMAIN resp.body
    /\ \E a \in OwnRows(resp.caller) : a.id = resp.pk

----------------------------------------------------------------------------
(* users/serializers.py and users/views.py: registration *)

\* the UniqueValidator a ModelSerializer derives from auth.User.username
UsernameUnique(value, table) == ~(\E u \in table : u.username = value)

\* (variant: the e-mail check always passes)
validate_email_skipped(value, table) == TRUE

\* UserRegistrationSerializer.validate_email: TRUE when the value passes
validate_email(value, table) == ~(\E u \in table : u.email = value)

\* (variant: the confirmation is not compared)
RegistrationValidateSkipped(attrs) == TRUE

\* UserRegistrationSerializer.validate: TRUE when attrs pass
RegistrationValidate(attrs) == ~(attrs.password # attrs.password2)

\* the field-level errors of a registration body
RegistrationFieldErrors(body, table) ==
    (IF UsernameUnique(body.username, table) THEN {} ELSE {"DuplicateUsername"})
    \cup (IF validate_email(body.email, table) THEN {} ELSE {"DuplicateEmail"})

\* serializer.is_valid(raise_exception=True): field errors are reported on
\* their own; validate() runs only when every field passed
RegistrationErrors(body, table) ==
    LET fieldErrs == RegistrationFieldErrors(body, table)
    IN  IF fieldErrs # {} THEN fieldErrs
        ELSE IF ~RegistrationValidate(body) THEN {"PasswordMismatch"}
        ELSE {}

\* User.objects.create_user(username, email, password, ...)
create_user(uid, body) ==
    [id |-> uid, username |-> body.username, email |-> body.email,
     password |-> Hash(body.password)]

\* the profile row that comes into being with a new user
CreateProfileOnUserSave(uid) == [user |-> uid, weight |-> NULL, bio |-> ""]

\* (variant: the profile data of the body is dropped)
ApplyProfileDataDropped(profile, profile_data) == profile

\* for attr, value in profile_data.items(): setattr(user.profile, attr, value)
ApplyProfileData(profile, profile_data) ==
    [f \in DOMAIN profile |->
        IF f \in DOMAIN profile_data THEN profile_data[f] ELSE profile[f]]

\* UserRegistrationSerializer.create: the profile row after registration
RegistrationProfile(uid, body) ==
    LET profile_data == IF Has(body, "profile") THEN body.profile ELSE EmptyBody
    IN  IF DOMAIN profile_data # {}
        THEN ApplyProfileData(CreateProfileOnUserSave(uid), profile_data)
        ELSE CreateProfileOnUserSave(uid)

\* RefreshToken.for_user(user): a new outstanding refresh token
TokenForUser(issued, uid) ==
    [jti |-> Cardinality(issued) + 1, user |-> uid, blacklisted |-> FALSE]

Usernames == {"alice", "bob", "carol"}
Emails == {"a@example.com", "b@example.com"}
Passwords == {"s3cret-One", "s3cret-Two"}
ProfileBodies == { [weight |-> 8100], [weight |-> 7000, bio |-> "runner"] }

RegistrationBodies ==
    LET plain == { [username |-> n, email |-> e,
                    password |-> "s3cret-One", password2 |-> q] :
                     n \in Usernames, e \in Emails, q \in Passwords }
    IN  plain \cup
        { [username |-> b.username, email |-> b.email, password |-> b.password,
           password2 |-> b.password2, profile |-> pr] :
             b \in plain, pr \in ProfileBodies }

\* POST /auth/register/ (UserRegistrationView.create; permission AllowAny)
Register(body) ==
    LET errs == RegistrationErrors(body, users)
        user == create_user(nextUid, body)
        profile == RegistrationProfile(nextUid, body)
        refresh == TokenForUser(tokens, nextUid)
        R(status, d) == Response("REGISTER", Anon, 0, body, status, d)
    IN  /\ UNCHANGED <<activities, nextId, today, inflight>>
        /\ IF errs # {}
           THEN /\ resp' = R(HTTP_400, [errors |-> errs])
                /\ UNCHANGED <<users, profiles, tokens, nextUid>>
           ELSE /\ nextUid <= MaxUsers
                /\ users' = users \cup {user}
                /\ profiles' = profiles \cup {profile}
                /\ tokens' = tokens \cup {refresh}
                /\ nextUid' = nextUid + 1
                /\ resp' = R(HTTP_201,
                             [account |-> [id |-> user.id,
                                           username |-> user.username,
                                           email |-> user.email,
                                           profile |-> profile],
                              refresh |-> refresh.jti])

InitUsers ==
    /\ users = {}
    /\ profiles = {}
    /\ tokens = {}
    /\ activities = {}
    /\ nextId = 1
    /\ nextUid = 1
    /\ today = 10
    /\ resp = NoResponse
    /\ inflight = [w \in Workers |-> Idle]

NextUsers ==
    \/ \E body \in RegistrationBodies : Register(body)

SpecUsers == InitUsers /\ [][NextUsers]_vars

----------------------------------------------------------------------------
(* Properties of registration, checked under SpecUsers *)

Mismatched(r) == r.op = "REGISTER" /\ r.body.password # r.body.password2

C9_DuplicateEmailRejected ==
    [][ (resp'.op = "REGISTER" /\ \E u \in users : u.email = resp'.body.email)
        => ( /\ resp'.status = HTTP_400
             /\ "DuplicateEmail" \in resp'.data.errors
             /\ users' = users /\ profiles' = profiles
             /\ nextUid' = nextUid ) ]_vars

\* C9 witness: a registration with a fresh username, matching passwords and
\* the e-mail of a stored account has been answered 400.
C9_Witness ==
    /\ resp.op = "REGISTER"
    /\ resp.status = HTTP_400
    /\ resp.data.errors = {"DuplicateEmail"}
    /\ resp.body.password = resp.body.password2
    /\ \E u \in users : u.email = resp.body.email

\* C10: every user has exactly one profile (so at most one), and after a
\* successful registration that supplied profile data the new user's profile
\* carries the supplied values.
C10_OneProfilePerUser ==
    /\ \A u \in users : Cardinality({p \in profiles : p.user = u.id}) = 1
    /\ \A uid \in 1..nextUid : Cardinality({p \in profiles : p.user = uid}) <= 1
    /\ (resp.op = "REGISTER" /\ resp.status = HTTP_201) =>
          /\ \E u \in users : u.id = resp.data.account.id
                              /\ u.username = resp.body.username
          /\ Has(resp.body, "profile") =>
                \A p \in profiles : p.user = resp.data.account.id =>
                    \A f \in DOMAIN resp.body.profile :
                        p[f] = resp.body.profile[f]

\* C10 witness: a second account has been registered with profile data while
\* the first account, registered without, keeps its own profile.
C10_Witness ==
    /\ resp.op = "REGISTER"
    /\ resp.status = HTTP_201
    /\ Has(resp.body, "profile")
    /\ Cardinality(users) = 2
    /\ \E p \in profiles : p.user = resp.data.account.id /\ p.weight # NULL
    /\ \E p \in profiles : p.user # resp.data.account.id /\ p.weight = NULL

----------------------------------------------------------------------------
(* users/views.py: CurrentUserView.delete, with the cascades of the        *)
(* foreign keys that point at the user                                     *)

\* (variant: the activities of a deleted account stay in the table)
CascadeActivitiesKept(store, uid) == store

\* Activity.user, on_delete=CASCADE
CascadeActivities(store, uid) == {a \in store : a.user # uid}

\* UserProfile.user, on_delete=CASCADE
CascadeProfiles(table, uid) == {p \in table : p.user # uid}

\* the refresh tokens issued to a deleted account stay on record, without
\* their user
DetachTokens(issued, uid) ==
    {[t EXCEPT !.user = IF t.user = uid THEN NULL ELSE t.user] : t \in issued}

\* DELETE /users/me/
DeleteMe(caller) ==
    LET R(status) == Response("DELETE_ME", caller, 0, EmptyBody, status, NoData)
    IN  /\ UNCHANGED <<nextId, nextUid, today, inflight>>
        /\ IF ~IsAuthenticated(caller)
           THEN /\ resp' = R(HTTP_401)
                /\ UNCHANGED <<users, profiles, tokens, activities>>
           ELSE /\ users' = {u \in users : u.id # caller}
                /\ tokens' = DetachTokens(tokens, caller)
                /\ activities' = CascadeActivities(activities, caller)
                /\ profiles' = CascadeProfiles(profiles, caller)
                /\ resp' = R(HTTP_204)

\* The fixture accounts, rows created for them, reads and account deletion
NextAccount ==
    \/ \E u \in UserIds : ModelCreate(u)
    \/ \E caller \in Callers, pk \in Pks :
          ActivityRequest(RetrieveActivity(caller, pk))
    \/ \E caller \in Callers : DeleteMe(caller)

SpecAccount == Init /\ [][NextAccount]_vars

\* C11: after a successful DELETE /users/me/ (204) no activity and no
\* profile of the deleted user remains, and the activities and the profile
\* of every other user are what they were before.
C11_DeleteCascades ==
    [][ (resp'.op = "DELETE_ME" /\ resp'.status = HTTP_204)
        => LET u == resp'.caller
           IN  /\ \A a \in activities' : a.user # u
               /\ \A p \in profiles' : p.user # u
               /\ \A x \in users' : x.id # u
               /\ {a \in activities' : a.user # u} = {a \in activities : a.user # u}
               /\ {p \in profiles' : p.user # u} = {p \in profiles : p.user # u} ]_vars

\* C11 witness: an account that owned an activity has been deleted while an
\* activity and the profile of the other account are still stored.
C11_Witness ==
    /\ resp.op = "DELETE_ME"
    /\ resp.status = HTTP_204
    /\ nextId > Cardinality(activities) + 1
    /\ \E a \in activities : a.user # resp.caller
    /\ \E p \in profiles : p.user # resp.caller

----------------------------------------------------------------------------
(* users/views.py: UserLoginView, UserLogoutView, ChangePasswordView;      *)
(* users/serializers.py: ChangePasswordSerializer                          *)

\* the token_blacklist application is installed: RefreshToken.for_user
\* records the token, RefreshToken(...) refuses a blacklisted one and
\* token.blacklist() exists
TokenBlacklistInstalled == TRUE

\* user.check_password(raw)
check_password(user, raw) == user.password = Hash(raw)

\* the text of a refresh token signed for this jti
Signed(jti) == <<"jwt", jti>>

\* POST /auth/login/: TokenObtainPairView, then the user data is added
Login(username, password) ==
    LET found == {u \in users : u.username = username /\ check_password(u, password)}
        body == [username |-> username, password |-> password]
    IN  /\ UNCHANGED <<users, profiles, activities, nextId, nextUid, today, inflight>>
        /\ IF found = {}
           THEN /\ resp' = Response("LOGIN", Anon, 0, body, HTTP_401, NoData)
                /\ UNCHANGED tokens
           ELSE \E u \in found :
                LET refresh == TokenForUser(tokens, u.id)
                IN  /\ Cardinality(tokens) < MaxTokens
                    /\ tokens' = tokens \cup {refresh}
                    /\ resp' = Response("LOGIN", Anon, 0, body, HTTP_200,
                                        [refresh |-> Signed(refresh.jti),
                                         user |-> u.id])

\* RefreshToken(refresh_token): verification passes for a token this
\* service signed that is not blacklisted; anything else raises TokenError
RefreshTokenVerifies(issued, text) ==
    \E t \in issued : text = Signed(t.jti) /\ ~t.blacklisted

\* (variant: logout answers without recording the token as blacklisted)
blacklistNothing(issued, text) == issued

\* token.blacklist()
blacklist(issued, text) ==
    {[t EXCEPT !.blacklisted = (t.blacklisted \/ text = Signed(t.jti))] : t \in issued}

\* POST /auth/logout/
Logout(caller, body) ==
    LET R(status) == Response("LOGOUT", caller, 0, body, status, NoData)
    IN  /\ UNCHANGED <<users, profiles, activities, nextId, nextUid, today, inflight>>
        /\ IF ~IsAuthenticated(caller)
           THEN resp' = R(HTTP_401) /\ UNCHANGED tokens
           ELSE IF ~Has(body, "refresh") \/ body.refresh = << >>
           THEN resp' = R(HTTP_400) /\ UNCHANGED tokens
           ELSE IF ~RefreshTokenVerifies(tokens, body.refresh)
                   \/ ~TokenBlacklistInstalled
           THEN resp' = R(HTTP_400) /\ UNCHANGED tokens
           ELSE /\ tokens' = blacklist(tokens, body.refresh)
                /\ resp' = R(HTTP_205)

\* (variant: the old password is not checked)
validate_old_password_skipped(user, value) == TRUE

\* ChangePasswordSerializer.validate_old_password
validate_old_password(user, value) == check_password(user, value)

\* ChangePasswordSerializer.validate
ChangePasswordValidate(attrs) == attrs.new_password = attrs.new_password2

\* serializer.is_valid(): field validators first, validate() only when
\* every field passed
ChangePasswordErrors(user, body) ==
    LET fields == {f \in {"old_password", "new_password", "new_password2"} :
                      ~Has(body, f)}
                  \cup (IF Has(body, "old_password")
                           /\ ~validate_old_password(user, body.old_password)
                        THEN {"old_password"} ELSE {})
    IN  IF fields # {} THEN fields
        ELSE IF ~ChangePasswordValidate(body) THEN {"new_password"} ELSE {}

\* user.set_password(raw); user.save()
set_password(table, uid, raw) ==
    {IF u.id = uid THEN [u EXCEPT !.password = Hash(raw)] ELSE u : u \in table}

\* POST /users/change-password/
ChangePassword(caller, body) ==
    LET R(status, d) == Response("CHANGE_PASSWORD", caller, 0, body, status, d)
    IN  /\ UNCHANGED <<profiles, tokens, activities, nextId, nextUid, today, inflight>>
        /\ IF ~IsAuthenticated(caller)
           THEN resp' = R(HTTP_401, NoData) /\ UNCHANGED users
           ELSE LET user == CHOOSE u \in users : u.id = caller
                    errs == ChangePasswordErrors(user, body)
                IN  IF errs # {}
                    THEN resp' = R(HTTP_400, [errors |-> errs]) /\ UNCHANGED users
                    ELSE /\ users' = set_password(users, caller, body.new_password)
                         /\ resp' = R(HTTP_200, NoData)

LoginNames == {"testuser", "otheruser", "nobody"}
PasswordInputs == {"testpass123", "N3w-passw0rd!"}

LogoutBodies ==
    {EmptyBody, [refresh |-> << >>], [refresh |-> <<"not-a-token">>]}
    \cup {[refresh |-> Signed(j)] : j \in 1..MaxTokens}

ChangePasswordBodies ==
    {[old_password |-> o, new_password |-> n, new_password2 |-> m] :
        o \in PasswordInputs, n \in PasswordInputs, m \in PasswordInputs}
    \cup {[old_password |-> "testpass123", new_password |-> "N3w-passw0rd!"]}

NextAuth ==
    \/ \E n \in LoginNames, p \in PasswordInputs : Login(n, p)
    \/ \E caller \in Callers, body \in LogoutBodies : Logout(caller, body)
    \/ \E caller \in Callers, body \in ChangePasswordBodies :
          ChangePassword(caller, body)

SpecAuth == Init /\ [][NextAuth]_vars

\* C12: logout never answers with a server error. For an authenticated
\* caller: a missing (absent or empty) refresh token gives 400 and
\* invalidates nothing; a malformed or already invalidated token gives 400;
\* a valid token gives 205 and is invalidated. No step makes an invalidated
\* token valid again, so a later logout with the same token gives 400.
C12_LogoutNeverFails ==
    [][ /\ \A t \in tokens : t.blacklisted =>
              \E t2 \in tokens' : t2.jti = t.jti /\ t2.blacklisted
        /\ resp'.op = "LOGOUT" =>
              LET b == resp'.body
                  missing == ~Has(b, "refresh") \/ b.refresh = << >>
                  live == /\ ~missing
                          /\ \E t \in tokens : /\ b.refresh = <<"jwt", t.jti>>
                                               /\ ~t.blacklisted
              IN  /\ resp'.status # HTTP_500
                  /\ resp'.status \in {HTTP_205, HTTP_400, HTTP_401}
                  /\ IsAuthenticated(resp'.caller) =>
                        /\ missing => resp'.status = HTTP_400 /\ tokens' = tokens
                        /\ (~missing /\ ~live) =>
                              resp'.status = HTTP_400 /\ tokens' = tokens
                        /\ live =>
                              /\ resp'.status = HTTP_205
                              /\ \A t \in tokens' :
                                    b.refresh = <<"jwt", t.jti>> => t.blacklisted
                              /\ \A t \in tokens :
                                    b.refresh # <<"jwt", t.jti>> => t \in tokens' ]_vars

\* C12 witness: a logout with a token that an earlier logout invalidated has
\* been answered 400 while another issued token is still valid.
C12_Witness ==
    /\ resp.op = "LOGOUT"
    /\ resp.status = HTTP_400
    /\ IsAuthenticated(resp.caller)
    /\ Has(resp.body, "refresh")
    /\ \E t \in tokens : resp.body.refresh = <<"jwt", t.jti>> /\ t.blacklisted
    /\ \E t \in tokens : ~t.blacklisted

\* C13: a password change is answered 200 only if old_password matches the
\* stored credential of the caller and new_password equals new_password2;
\* after a 200 the stored credential matches new_password and no other
\* account changed; after a 400 no stored credential changed.
C13_PasswordChange ==
    [][ resp'.op = "CHANGE_PASSWORD" =>
          LET b == resp'.body
              c == resp'.caller
          IN  /\ resp'.status \in {HTTP_200, HTTP_400, HTTP_401}
              /\ resp'.status = HTTP_200 =>
                    /\ \E u \in users : u.id = c /\ u.password = Hash(b.old_password)
                    /\ b.new_password = b.new_password2
                    /\ \E u \in users' : u.id = c /\ u.password = Hash(b.new_password)
                    /\ {u \in users' : u.id # c} = {u \in users : u.id # c}
                    /\ Cardinality(users') = Cardinality(users)
              /\ resp'.status # HTTP_200 => users' = users ]_vars

\* C13 witness: an account whose credential an earlier change replaced has
\* had a later change refused (400) for its former password.
C13_Witness ==
    /\ resp.op = "CHANGE_PASSWORD"
    /\ resp.status = HTTP_400
    /\ resp.data.errors = {"old_password"}
    /\ resp.body.old_password = "testpass123"
    /\ \E u \in users : u.id = resp.caller /\ u.password = Hash("N3w-passw0rd!")

----------------------------------------------------------------------------
(* The read side over richer tables: rows of several types, dates on both  *)
(* sides of the period floors, absent and zero distances                   *)

\* keyword arguments of Activity.objects.create: the fixture run, a titled
\* ride five days back, a run eight days back with an empty title, a
\* session forty days back with distance 0, and a walk with neither title
\* nor date
CreateData(now) ==
    { [activity_type |-> "RUNNING", duration |-> 30, distance |-> 500,
       calories_burned |-> 300, date |-> now],
      [activity_type |-> "CYCLING", title |-> <<"Commute">>, duration |-> 60,
       date |-> now - 5],
      [activity_type |-> "RUNNING", title |-> NoTitle, duration |-> 3,
       distance |-> 32, calories_burned |-> 40, date |-> now - 8],
      [activity_type |-> "YOGA", duration |-> 45, distance |-> 0,
       date |-> now - 40],
      [activity_type |-> "WALKING", duration |-> 48, distance |-> 2] }

\* query strings of the metrics endpoint
MetricsParams(now) ==
    { EmptyBody,
      [period |-> "week"],
      [period |-> "week", date_from |-> now - 3],
      [period |-> "month", date_from |-> now - 50, date_to |-> now - 1],
      [period |-> "day", date_from |-> now - 3],
      [date_from |-> now + 1],
      [activity_type |-> "RUNNING", period |-> "year", date_from |-> now - 6] }

\* query strings of the list endpoint
ListParams(now) ==
    { EmptyBody,
      [activity_type |-> "RUNNING"],
      [date_from |-> now - 5],
      [date_to |-> now - 5],
      [activity_type |-> "RUNNING", date_from |-> now - 8, date_to |-> now - 1] }

\* Activity.objects.create(user=u, **data)
CreateWith(u, data) ==
    /\ nextId <= MaxActivities
    /\ u \in UserIds
    /\ activities' = activities \cup {Create(nextId, u, data, today)}
    /\ nextId' = nextId + 1
    /\ resp' = Response("CREATE", u, nextId, data, 0, NoData)
    /\ UNCHANGED <<users, profiles, tokens, nextUid, today, inflight>>

NextReads ==
    \/ \E u \in UserIds, data \in CreateData(today) : CreateWith(u, data)
    \/ \E caller \in Callers, params \in ListParams(today) :
          ActivityRequest(ListActivities(caller, params))
    \/ \E caller \in Callers, pk \in Pks :
          ActivityRequest(RetrieveActivity(caller, pk))
    \/ \E caller \in Callers, params \in MetricsParams(today) :
          ActivityRequest(ActivityMetrics(caller, params))

SpecReads == Init /\ [][NextReads]_vars

\* the request of the last response named a period shortcut the view knows
\* together with an explicit date_from
PeriodWithDateFrom ==
    /\ resp.op = "METRICS"
    /\ resp.status = HTTP_200
    /\ Has(resp.body, "period")
    /\ resp.body.period \in {"week", "month", "year"}
    /\ Has(resp.body, "date_from")

\* today minus the days of the period of the last request
PeriodFloor ==
    today - (CASE resp.body.period = "week" -> 7
               [] resp.body.period = "month" -> 30
               [] resp.body.period = "year" -> 365)

\* the caller's rows that pass the date_to and activity_type of the last
\* request and lie on or after the given day
OwnRowsSince(day) ==
    {a \in OwnRows(resp.caller) :
        /\ a.date >= day
        /\ Has(resp.body, "date_to") => a.date <= resp.body.date_to
        /\ Has(resp.body, "activity_type") =>
               a.activity_type = resp.body.activity_type}

\* C14 as stated: with a period in {week, month, year} and an explicit
\* date_from the two compose: the summary is that of the caller's activities
\* dated on or after the period floor AND on or after date_from (and up to
\* date_to when given).
C14_PeriodComposes ==
    PeriodWithDateFrom =>
        resp.data =
            SummaryData({a \in OwnRowsSince(PeriodFloor) :
                            a.date >= resp.body.date_from},
                        resp.data.most_common_activity)

\* C14 amended: with a period in {week, month, year} the period floor
\* replaces an explicit date_from: the summary is that of the caller's
\* activities dated on or after the period floor (and up to date_to when
\* given), whatever date_from says.
C14_PeriodOverrides ==
    PeriodWithDateFrom =>
        resp.data =
            SummaryData(OwnRowsSince(PeriodFloor),
                        resp.data.most_common_activity)

\* C14 witness: metrics were asked for period=week with a date_from three
\* days back while the caller has an activity inside the week but before
\* that date_from, and the summary counts it.
C14_Witness ==
    /\ PeriodWithDateFrom
    /\ resp.body.period = "week"
    /\ \E a \in OwnRows(resp.caller) :
          a.date >= PeriodFloor /\ a.date < resp.body.date_from
    /\ resp.data.total_activities >= 1

\* the caller's rows selected by the filters of the last metrics request
Selected == MetricsQueryset(activities, resp.caller, resp.body, today)

\* the value a row contributes to a total: a missing value counts as 0
Contribution(a, col) == IF a[col] = NULL THEN 0 ELSE a[col]

\* the sum of a column over the selected rows, built up by primary key
RECURSIVE TotalUpTo(_, _)
TotalUpTo(n, col) ==
    IF n = 0 THEN 0
    ELSE TotalUpTo(n - 1, col)
         + (IF \E a \in Selected : a.id = n
            THEN Contribution(CHOOSE a \in Selected : a.id = n, col) ELSE 0)

\* C15: in a metrics summary total_activities is the number of selected
\* activities and total_duration, total_distance and total_calories are the
\* sums of duration, distance and calories_burned over them, a missing
\* distance or calories value counting as 0.
C15_TotalsAreSums ==
    (resp.op = "METRICS" /\ resp.status = HTTP_200) =>
        /\ resp.data.total_activities = Cardinality(Selected)
        /\ resp.data.total_duration = TotalUpTo(nextId, "duration")
        /\ resp.data.total_distance = TotalUpTo(nextId, "distance")
        /\ resp.data.total_calories = TotalUpTo(nextId, "calories_burned")

\* C15 witness: a summary over two selected activities, one of them without
\* distance and calories, reports the duration of both and the distance and
\* calories of the other.
C15_Witness ==
    /\ resp.op = "METRICS"
    /\ resp.status = HTTP_200
    /\ resp.data.total_activities = 2
    /\ \E a \in Selected, b \in Selected :
          /\ a.distance = NULL /\ a.calories_burned = NULL
          /\ b.distance # NULL /\ b.distance > 0 /\ b.calories_burned # NULL
          /\ resp.data.total_duration = a.duration + b.duration
          /\ resp.data.total_distance = b.distance
          /\ resp.data.total_calories = b.calories_burned

\* C16: a metrics request whose filters select no activity is answered 200
\* with total_activities 0, every sum 0, every average 0, no most common
\* activity and an empty breakdown.
C16_EmptySummary ==
    (resp.op = "METRICS" /\ IsAuthenticated(resp.caller) /\ Selected = {}) =>
        /\ resp.status = HTTP_200
        /\ resp.data.total_activities = 0
        /\ resp.data.total_duration = 0
        /\ resp.data.total_distance = 0
        /\ resp.data.total_calories = 0
        /\ resp.data.average_duration = 0
        /\ resp.data.average_distance = 0
        /\ resp.data.average_calories = 0
        /\ resp.data.most_common_activity = "None"
        /\ DOMAIN resp.data.activity_breakdown = {}

\* C16 witness: the caller has an activity, asks for metrics from tomorrow
\* on, and gets the summary of nothing.
C16_Witness ==
    /\ resp.op = "METRICS"
    /\ resp.status = HTTP_200
    /\ OwnRows(resp.caller) # {}
    /\ Has(resp.body, "date_from")
    /\ resp.body.date_from > today
    /\ resp.data.total_activities = 0

\* the caller's rows that satisfy every filter of the last list request
Matching ==
    {a \in OwnRows(resp.caller) :
        /\ Has(resp.body, "activity_type") =>
               a.activity_type = resp.body.activity_type
        /\ Has(resp.body, "date_from") => ~(a.date < resp.body.date_from)
        /\ Has(resp.body, "date_to") => ~(a.date > resp.body.date_to)}

\* C17: the activity list holds exactly the caller's activities that satisfy
\* every supplied filter at once: activity_type equal to the given type,
\* date on or after date_from, date on or before date_to; a filter that is
\* not supplied removes nothing. (count is their number; the page of results
\* holds only such activities, and all of them when they fit one page.)
C17_ListFiltersConjoin ==
    (resp.op = "LIST" /\ resp.status = HTTP_200) =>
        LET shown == {resp.data.results[i] : i \in 1..Len(resp.data.results)}
        IN  /\ resp.data.count = Cardinality(Matching)
            /\ shown \subseteq Matching
            /\ Cardinality(shown) = Len(resp.data.results)
            /\ Cardinality(Matching) <= page_size => shown = Matching

\* C17 witness: a list request with all three filters shows an activity
\* dated exactly date_from and leaves out an activity of the caller of
\* another type that lies inside the date range.
C17_Witness ==
    /\ resp.op = "LIST"
    /\ resp.status = HTTP_200
    /\ DOMAIN resp.body = {"activity_type", "date_from", "date_to"}
    /\ resp.data.count = 1
    /\ resp.data.results[1].date = resp.body.date_from
    /\ \E a \in OwnRows(resp.caller) :
          /\ a.activity_type # resp.body.activity_type
          /\ a.date >= resp.body.date_from /\ a.date <= resp.body.date_to

\* C18: an activity created with no title (absent or empty) is stored with
\* the title "<display name of its activity_type> - <its date>"; an activity
\* created with a non-empty title is stored with that title.
C18_AutoTitle ==
    resp.op = "CREATE" =>
        \E a \in activities :
            /\ a.id = resp.pk
            /\ IF ~Has(resp.body, "title") \/ resp.body.title = NoTitle
               THEN a.title = <<get_activity_type_display(a.activity_type),
                                " - ", a.date>>
               ELSE a.title = resp.body.title

\* q hundredths is a rounding of num/den to two decimals: no hundredth is
\* nearer to the quotient
RoundedTo2(q, num, den) ==
    /\ 2 * (q * den - num) <= den
    /\ 2 * (num - q * den) <= den

\* C19: for every activity (duration >= 1) as it is shown: with a distance
\* above 0, pace is duration/distance and speed is distance/(duration/60),
\* each rounded to two decimals; with the distance absent or 0 both are null.
C19_PaceAndSpeed ==
    (resp.op = "GET" /\ resp.status = HTTP_200 /\ resp.data.activity.duration >= 1) =>
        LET a == resp.data.activity
        IN  IF a.distance # NULL /\ a.distance > 0
            THEN /\ resp.data.pace # NULL
                 /\ resp.data.speed # NULL
                 /\ RoundedTo2(resp.data.pace, 100 * 100 * a.duration, a.distance)
                 /\ RoundedTo2(resp.data.speed, 60 * a.distance, a.duration)
            ELSE resp.data.pace = NULL /\ resp.data.speed = NULL

\* C19 witness: an activity of 48 minutes over 0.02 km is shown with pace
\* 2400.00 min/km and a speed rounded from 0.025 km/h.
C19_Witness ==
    /\ resp.op = "GET"
    /\ resp.status = HTTP_200
    /\ resp.data.activity.duration = 48
    /\ resp.data.activity.distance = 2
    /\ resp.data.pace = 240000
    /\ resp.data.speed \in {2, 3}

\* C20: a successful request of the owner changes only its target. A valid
\* POST is answered 201 and adds exactly one activity, changing no existing
\* one; a PATCH answered 200 changes only the fields it sent, on the
\* addressed activity; a DELETE answered 204 removes exactly the addressed
\* activity; every other activity stays as it was.
C20_OnlyTargetChanges ==
    [][ /\ (resp'.op = "POST" /\ IsAuthenticated(resp'.caller)
                              /\ WriteBodyErrors(resp') = {}) =>
              /\ resp'.status = HTTP_201
              /\ activities \subseteq activities'
              /\ Cardinality(activities' \ activities) = 1
        /\ (resp'.op = "PATCH" /\ resp'.status = HTTP_200) =>
              /\ {a \in activities' : a.id # resp'.pk}
                    = {a \in activities : a.id # resp'.pk}
              /\ Cardinality({a \in activities' : a.id = resp'.pk}) = 1
              /\ \A a \in activities, b \in activities' :
                    (a.id = resp'.pk /\ b.id = resp'.pk) =>
                        \A f \in (DOMAIN a) \ (DOMAIN resp'.body) : b[f] = a[f]
        /\ (resp'.op = "DELETE" /\ resp'.status = HTTP_204) =>
              /\ \E a \in activities : a.id = resp'.pk
              /\ activities' = {a \in activities : a.id # resp'.pk} ]_vars

----------------------------------------------------------------------------
(* activities/views.py: ActivityDetailView updates handled by several      *)
(* workers at once. get_object() reads the row; ModelSerializer.update     *)
(* sets the validated attributes on that instance and instance.save()      *)
(* writes it; other workers may run between the two.                       *)

\* (variant: the validated attributes are applied to the row as it is
\* stored at the time of the write, not to the instance that was read)
StoreAfterSaveMerged(store, instance, validated_data) ==
    {IF a.id = instance.id THEN SerializerUpdate(a, validated_data) ELSE a :
        a \in store}

\* serializer.save() on the instance read earlier: save() writes every
\* column of the instance to the row with its primary key
StoreAfterSave(store, instance, validated_data) ==
    LET row == SerializerUpdate(instance, validated_data)
    IN  {a \in store : a.id # row.id} \cup {row}

\* PUT / PATCH /activities/{pk}/ up to is_valid(): permission, get_object(),
\* validation; a request that passes keeps the instance it read
UpdateRead(w, method, caller, pk, body) ==
    LET found == GetObject(DetailQueryset(activities, caller), pk)
        cls == get_serializer_class(method)
        errs == SerializerErrors(cls, body, method = "PATCH", today)
        R(status, d) == Response(method, caller, pk, body, status, d)
    IN  /\ inflight[w].stage # "loaded"
        /\ UNCHANGED <<users, profiles, tokens, activities, nextId, nextUid, today>>
        /\ IF ~IsAuthenticated(caller)
           THEN /\ resp' = R(HTTP_401, NoData)
                /\ inflight' = [inflight EXCEPT ![w] = Idle]
           ELSE IF found = {}
           THEN /\ resp' = R(HTTP_404, NoData)
                /\ inflight' = [inflight EXCEPT ![w] = Idle]
           ELSE IF errs # {}
           THEN /\ resp' = R(HTTP_400, [errors |-> errs])
                /\ inflight' = [inflight EXCEPT ![w] = Idle]
           ELSE \E row \in found :
                /\ resp' = resp
                /\ inflight' = [inflight EXCEPT ![w] =
                       [stage |-> "loaded", method |-> method, caller |-> caller,
                        pk |-> pk, body |-> body, instance |-> row,
                        written |-> row]]

\* the rest of the request: perform_update -> serializer.save(), then the
\* 200 response with the saved instance
UpdateWrite(w) ==
    LET r == inflight[w]
        data == ValidatedData(r.body)
        row == SerializerUpdate(r.instance, data)
    IN  /\ r.stage = "loaded"
        /\ UNCHANGED <<users, profiles, tokens, nextId, nextUid, today>>
        /\ activities' = StoreAfterSave(activities, r.instance, data)
        /\ resp' = Response(r.method, r.caller, r.pk, r.body, HTTP_200,
                            [activity |-> row])
        /\ inflight' = [inflight EXCEPT ![w] =
                           [r EXCEPT !.stage = "done", !.written = row]]

\* PATCH bodies of the concurrent requests: two that set different columns
\* and one that fails validation
ConcurrentBodies ==
    { [duration |-> 50], [calories_burned |-> 400], [duration |-> 0] }

\* the fixture accounts and the first fixture activity, owned by testuser
InitConcurrent ==
    /\ users = FixtureUsers
    /\ profiles = { [user |-> u.id, weight |-> NULL, bio |-> ""] : u \in FixtureUsers }
    /\ tokens = {}
    /\ activities = {Create(1, 1, SeedData(1, 10), 10)}
    /\ nextId = 2
    /\ nextUid = 3
    /\ today = 10
    /\ resp = NoResponse
    /\ inflight = [w \in Workers |-> Idle]

NextConcurrent ==
    \/ \E w \in Workers, caller \in Callers, pk \in Pks,
          body \in ConcurrentBodies :
          UpdateRead(w, "PATCH", caller, pk, body)
    \/ \E w \in Workers : UpdateWrite(w)

SpecConcurrent == InitConcurrent /\ [][NextConcurrent]_vars

\* the worker completes its update in this step
Writes(w) == inflight[w].stage = "loaded" /\ inflight'[w].stage # "loaded"

\* C21: when updates of the same activity by its owner overlap, the last
\* write wins. Every update that has read the row completes with 200 (none
\* is rejected because the row changed since it was read); after its write
\* the stored activity is, column by column, the row this writer built from
\* the row it read and the fields it sent, which is also what its response
\* shows; no other step changes a stored activity. So the final activity is
\* the row of the update that wrote last, never a mixture no writer built.
C21_LastWriteWins ==
    [][ /\ \A w \in Workers : Writes(w) =>
              LET r == inflight[w]
                  sent == (DOMAIN r.body) \cap CreateSerializerFields
              IN  /\ resp'.status = HTTP_200
                  /\ Cardinality({a \in activities' : a.id = r.pk}) = 1
                  /\ \A a \in activities' : a.id = r.pk =>
                        /\ a = resp'.data.activity
                        /\ \A f \in DOMAIN a :
                              a[f] = IF f \in sent THEN r.body[f]
                                     ELSE r.instance[f]
                  /\ {a \in activities' : a.id # r.pk}
                        = {a \in activities : a.id # r.pk}
        /\ (\A w \in Workers : ~Writes(w)) => activities' = activities ]_vars

\* C21 witness: two workers read the same row of the same owner, the first
\* wrote its row, then the second wrote; the stored activity is the second
\* writer's row, and the column only the first writer set is back at the
\* value both had read.
C21_Witness ==
    \E w \in Workers, v \in Workers :
        /\ w # v
        /\ inflight[w].stage = "done"
        /\ inflight[v].stage = "done"
        /\ inflight[w].pk = inflight[v].pk
        /\ inflight[w].caller = inflight[v].caller
        /\ inflight[w].instance = inflight[v].instance
        /\ inflight[w].written # inflight[v].written
        /\ resp.status = HTTP_200
        /\ resp.body = inflight[v].body
        /\ inflight[v].written \in activities
        /\ inflight[w].written \notin activities
        /\ \E f \in DOMAIN inflight[w].body :
              /\ f \notin DOMAIN inflight[v].body
              /\ \A a \in activities : a.id = inflight[v].pk =>
                    /\ a[f] = inflight[w].instance[f]
                    /\ a[f] # inflight[w].written[f]

----------------------------------------------------------------------------
(* users/views.py: CurrentUserView PUT / PATCH (UserUpdateSerializer), and *)
(* registrations handled by several workers at once                        *)

\* UserUpdateSerializer.update on request.user: the e-mail of the body, or
\* the one the instance has
UpdatedUser(user, validated_data) ==
    [user EXCEPT !.email = IF Has(validated_data, "email")
                           THEN validated_data.email ELSE user.email]

\* UserUpdateSerializer.update: the profile rows after the profile data of
\* the body is set on instance.profile
UpdatedProfiles(table, uid, validated_data) ==
    IF Has(validated_data, "profile") /\ DOMAIN validated_data.profile # {}
    THEN {IF p.user = uid THEN ApplyProfileData(p, validated_data.profile) ELSE p :
             p \in table}
    ELSE table

\* PUT / PATCH /users/me/: the serializer has no check of the e-mail
\* against other accounts
UpdateMe(method, caller, body) ==
    LET R(status, d) == Response(method, caller, 0, body, status, d)
    IN  /\ UNCHANGED <<tokens, activities, nextId, nextUid, today, inflight>>
        /\ IF ~IsAuthenticated(caller)
           THEN /\ resp' = R(HTTP_401, NoData)
                /\ UNCHANGED <<users, profiles>>
           ELSE LET user == CHOOSE u \in users : u.id = caller
                    saved == UpdatedUser(user, body)
                IN  /\ users' = (users \ {user}) \cup {saved}
                    /\ profiles' = UpdatedProfiles(profiles, caller, body)
                    /\ resp' = R(HTTP_200,
                                 [account |-> [id |-> saved.id,
                                               username |-> saved.username,
                                               email |-> saved.email]])

\* POST /auth/register/ up to is_valid(): the uniqueness checks read the
\* users table as it is now
RegisterValidate(w, body) ==
    LET errs == RegistrationErrors(body, users)
    IN  /\ inflight[w].stage = "idle"
        /\ UNCHANGED <<users, profiles, tokens, activities, nextId, nextUid, today>>
        /\ IF errs # {}
           THEN /\ resp' = Response("REGISTER", Anon, 0, body, HTTP_400,
                                    [errors |-> errs])
                /\ UNCHANGED inflight
           ELSE /\ resp' = resp
                /\ inflight' = [inflight EXCEPT ![w] =
                                   [stage |-> "validated", body |-> body]]

\* the rest of the registration: serializer.save() and the tokens. The
\* username column is unique in the table (an insert of a taken username
\* raises IntegrityError); the e-mail column is not
RegisterCreate(w) ==
    LET body == inflight[w].body
        user == create_user(nextUid, body)
        profile == RegistrationProfile(nextUid, body)
        refresh == TokenForUser(tokens, nextUid)
        R(status, d) == Response("REGISTER", Anon, 0, body, status, d)
    IN  /\ inflight[w].stage = "validated"
        /\ UNCHANGED <<activities, nextId, today>>
        /\ inflight' = [inflight EXCEPT ![w] = Idle]
        /\ IF ~UsernameUnique(body.username, users)
           THEN /\ resp' = R(HTTP_500, NoData)
                /\ UNCHANGED <<users, profiles, tokens, nextUid>>
           ELSE /\ nextUid <= MaxUsers
                /\ users' = users \cup {user}
                /\ profiles' = profiles \cup {profile}
                /\ tokens' = tokens \cup {refresh}
                /\ nextUid' = nextUid + 1
                /\ resp' = R(HTTP_201,
                             [account |-> [id |-> user.id,
                                           username |-> user.username,
                                           email |-> user.email,
                                           profile |-> profile],
                              refresh |-> refresh.jti])

\* registration bodies that pass the password comparison
SignupBodies ==
    { [username |-> n, email |-> e, password |-> "s3cret-One",
       password2 |-> "s3cret-One"] : n \in {"alice", "bob"}, e \in Emails }

\* bodies of PUT / PATCH /users/me/
UpdateMeBodies == { [email |-> e] : e \in Emails } \cup { EmptyBody }

NextEmails ==
    \/ \E w \in Workers, body \in SignupBodies : RegisterValidate(w, body)
    \/ \E w \in Workers : RegisterCreate(w)
    \/ \E method \in {"PUT", "PATCH"}, caller \in Callers, body \in UpdateMeBodies :
          UpdateMe(method, caller, body)

SpecEmails == InitUsers /\ [][NextEmails]_vars

\* C22: after any sequence and any interleaving of registrations and
\* updates of the current user, no two accounts have the same e-mail.
C22_EmailsUnique ==
    \A u \in users, v \in users : u.id # v.id => u.email # v.email

====
